---- MODULE Spec2Model ----
(***************************************************************************)
(* Individual-based model of mussel aggregation                            *)
(* (Examples/6.1 - IBM - Mussel aggregation patterns).                      *)
(*                                                                         *)
(* Number model.  Positions and lengths are integers (one unit = one unit  *)
(* of Length).  Densities, Beta and Stepsize are exact rationals           *)
(* [n |-> numerator, d |-> denominator], kept in lowest terms with d > 0,  *)
(* so that two rationals are equal iff their records are equal.  A moved    *)
(* coordinate is computed and corrected exactly and then stored rounded    *)
(* down to a whole unit, so the tests c < 0 and c > Length are exact and a *)
(* stored coordinate is in [0, Length) iff the exact one is.  np.pi is the *)
(* rational PiNum/PiDen.                                                   *)
(* Distance holds the integer part of the Euclidean distance; for an       *)
(* integer radius D, Distance < D iff the exact distance is < D.           *)
(*                                                                         *)
(* A draw of np.random.rand is one element of a small set of outcomes:     *)
(* InitRand for the initial positions, URand for the step sizes (each      *)
(* outcome u is named by 1000*ln(u)), ARand for the headings (each outcome *)
(* is a number of quarter turns, rand = a/4).  The outcome rand = 0 for a  *)
(* step size (log(0) = -inf) is outside URand.                             *)
(***************************************************************************)
EXTENDS Integers, FiniteSets, Sequences, TLC

\* ---------------------------------------------------------------- parameters
Length == 50
D1 == 2
D2 == 6
P1 == 100
P2 == 0 - 80
\* Number of timesteps of the run (300 in the notebook).
EndTime == 2
\* Largest number of mussels (2000 in the notebook).
MaxN == 2
\* Values of P3 the run is started with (3 in the notebook).
P3Set == {0 - 1, 0, 3}

\* np.pi
PiNum == 355
PiDen == 113
\* The literal 0.001 of the Beta computation.
FloorNum == 1
FloorDen == 1000
\* The literals 360.0 and 180.0 of the heading computation.
FullTurn == 360
HalfTurn == 180

\* Outcomes of np.random.rand(N)*Length for the initial coordinates.
InitRandX == {0, 43, 47, 49}
InitRandY == {49}
\* Coordinates handed to dist and distp when they are checked on their own.
DistArgs == {0 - 3, 0, 4, 52}
\* Outcomes u of np.random.rand for the step size, as 1000*ln(u).
URand == {0 - 3001}
\* Outcomes of np.random.rand for the heading, in quarter turns.
ARand == {1, 2}

\* ---------------------------------------------------------------- rationals
Abs(a) == IF a < 0 THEN 0 - a ELSE a

RECURSIVE GCD(_, _)
GCD(a, b) == IF b = 0 THEN a ELSE GCD(b, a % b)

Rat(n, d) ==
    LET g == GCD(Abs(n), Abs(d))
        s == IF d < 0 THEN 0 - 1 ELSE 1
    IN  [n |-> (s * n) \div g, d |-> (s * d) \div g]

RatInt(k) == [n |-> k, d |-> 1]
RatAdd(a, b) == Rat(a.n * b.d + b.n * a.d, a.d * b.d)
RatMul(a, b) == Rat(a.n * b.n, a.d * b.d)
RatNeg(a) == [n |-> 0 - a.n, d |-> a.d]
RatLess(a, b) == a.n * b.d < b.n * a.d
RatLeq(a, b) == a.n * b.d <= b.n * a.d
\* np.maximum(a, b)
RatMax(a, b) == IF RatLess(a, b) THEN b ELSE a
\* 1/a for a # 0
RatInv(a) == Rat(a.d, a.n)
\* Largest integer not above a: the whole unit a coordinate is stored as.
Floor(a) == a.n \div a.d

\* Integer part of the square root of n >= 0.
RECURSIVE SqrtBetween(_, _, _)
SqrtBetween(n, lo, hi) ==
    IF lo = hi THEN lo
    ELSE LET mid == (lo + hi + 1) \div 2
         IN  IF mid * mid <= n THEN SqrtBetween(n, mid, hi)
             ELSE SqrtBetween(n, lo, mid - 1)

Sqrt(n) == SqrtBetween(n, 0, IF n < 46340 THEN n ELSE 46340)

\* ---------------------------------------------------------------- arrays
Agents(n) == 0 .. (n - 1)
Columns == 0 .. (EndTime - 1)

\* np.zeros(n) and np.zeros((n, m))
Zeros(n) == [i \in Agents(n) |-> 0]
Zeros2(n, cols) == [i \in Agents(n) |-> [t \in cols |-> 0]]

\* Diagonal = np.zeros((N,N)); np.fill_diagonal(Diagonal, 1)
Diagonal(n) == [i \in Agents(n) |-> [j \in Agents(n) |-> IF i = j THEN 1 ELSE 0]]

RECURSIVE SumUpTo(_, _, _)
SumUpTo(M, j, k) == IF k < 0 THEN 0 ELSE M[k][j] + SumUpTo(M, j, k - 1)

\* M.sum(axis=0): entry j is the sum over the first index.
SumAxis0(M, n) == [j \in Agents(n) |-> SumUpTo(M, j, n - 1)]

\* ---------------------------------------------------------------- distances
\* dist with the x differences taken against the first mussel only.
dist_WrongAxis(x, y) ==
    LET dx == [i \in DOMAIN x |-> [j \in DOMAIN x |-> x[i] - x[0]]]
        dy == [i \in DOMAIN y |-> [j \in DOMAIN y |-> y[i] - y[j]]]
    IN  [i \in DOMAIN x |-> [j \in DOMAIN x |->
            Sqrt(dx[i][j] * dx[i][j] + dy[i][j] * dy[i][j])]]

dist(x, y) ==
    LET dx == [i \in DOMAIN x |-> [j \in DOMAIN x |-> x[i] - x[j]]]
        dy == [i \in DOMAIN y |-> [j \in DOMAIN y |-> y[i] - y[j]]]
    IN  [i \in DOMAIN x |-> [j \in DOMAIN x |->
            Sqrt(dx[i][j] * dx[i][j] + dy[i][j] * dy[i][j])]]

distp(x, y) ==
    [i \in DOMAIN x |-> [j \in DOMAIN y |->
        Sqrt((x[j] - x[i]) * (x[j] - x[i]) + (y[j] - y[i]) * (y[j] - y[i]))]]

\* ---------------------------------------------------------------- one step
\* NrInDist with <= for <.
NrInDist_Leq(Dm, D, n) ==
    [i \in Agents(n) |-> [j \in Agents(n) |->
        (IF Dm[i][j] <= D THEN 1 ELSE 0) - Diagonal(n)[i][j]]]

\* NrInDist without the subtraction of Diagonal.
NrInDist_WithSelf(Dm, D, n) ==
    [i \in Agents(n) |-> [j \in Agents(n) |-> IF Dm[i][j] < D THEN 1 ELSE 0]]

\* (Distance < D)*1.0 - Diagonal
NrInDist(Dm, D, n) ==
    [i \in Agents(n) |-> [j \in Agents(n) |->
        (IF Dm[i][j] < D THEN 1 ELSE 0) - Diagonal(n)[i][j]]]

\* Nr.sum(axis=0) / (D**2 * np.pi)
DensityInDist(Nr, D, n) ==
    [j \in Agents(n) |-> Rat(SumAxis0(Nr, n)[j] * PiDen, D * D * PiNum)]

\* P1*Density_In_Dist1 + P2*Density_In_Dist2
Agitation(d1, d2) == RatAdd(RatMul(RatInt(P1), d1), RatMul(RatInt(P2), d2))

\* BetaDenominator with P3 inside the maximum.
BetaDenominator_WholeFloor(d1, d2, p3) ==
    RatMax(Rat(FloorNum, FloorDen), RatAdd(Agitation(d1, d2), RatInt(p3)))

\* BetaDenominator with the literal 0.0001 for 0.001.
BetaDenominator_SmallFloor(d1, d2, p3) ==
    RatAdd(RatMax(Rat(FloorNum, 10 * FloorDen), Agitation(d1, d2)), RatInt(p3))

\* np.maximum(0.001, P1*Density_In_Dist1+P2*Density_In_Dist2) + P3
BetaDenominator(d1, d2, p3) ==
    RatAdd(RatMax(Rat(FloorNum, FloorDen), Agitation(d1, d2)), RatInt(p3))

BetaOf(d1, d2, p3) == RatInv(BetaDenominator(d1, d2, p3))

\* np.log(u), u named by 1000*ln(u)
Log(u) == Rat(u, 1000)

\* - Beta * np.log(u)
StepsizeOf(beta, u) == RatMul(RatNeg(beta), Log(u))

\* np.random.rand()*360.0 for rand = a/4
AngleOf(a) == (a * FullTurn) \div 4

\* np.sin(Angle/180.0*np.pi) and np.cos(Angle/180.0*np.pi) on the quarter turns
Sin(deg) == CASE deg = 0 -> 0 [] deg = HalfTurn \div 2 -> 1
              [] deg = HalfTurn -> 0 [] OTHER -> 0 - 1
Cos(deg) == CASE deg = 0 -> 1 [] deg = HalfTurn \div 2 -> 0
              [] deg = HalfTurn -> 0 - 1 [] OTHER -> 0

\* X + np.sin(Angle/180.0*np.pi)*Stepsize
Move(c, trig, step) == RatAdd(RatInt(c), RatMul(RatInt(trig), step))

\* Boundary as a reduction modulo Length.
Boundary_Modulo(c) ==
    RatAdd(c, RatInt(0 - Length * Floor(RatMul(c, Rat(1, Length)))))

\* c + Length*(c<0) - Length*(c>Length)
Boundary(c) ==
    RatAdd(c, RatInt(Length * (IF RatLess(c, RatInt(0)) THEN 1 ELSE 0)
                     - Length * (IF RatLess(RatInt(Length), c) THEN 1 ELSE 0)))

\* Record writing the positions into every column.
Record_AllColumns(H, t, pos) ==
    [i \in DOMAIN H |-> [c \in DOMAIN H[i] |-> pos[i]]]

\* Xs[:,Time]=X
Record(H, t, pos) == [i \in DOMAIN H |-> [H[i] EXCEPT ![t] = pos[i]]]

\* ---------------------------------------------------------------- state
VARIABLES N, P3, X, Y, Xs, Ys, Time, pc,
          Distance, Nr_In_Dist1, Nr_In_Dist2,
          Density_In_Dist1, Density_In_Dist2, Beta, Stepsize, Angle

vars == <<N, P3, X, Y, Xs, Ys, Time, pc, Distance, Nr_In_Dist1, Nr_In_Dist2,
          Density_In_Dist1, Density_In_Dist2, Beta, Stepsize, Angle>>

\* The cells before the loop: parameters, array declarations, storage.
\* Time is the index the loop runs next; the arrays first assigned inside
\* the loop are empty until then.
Init ==
    /\ N \in 0 .. MaxN
    /\ P3 \in P3Set
    /\ X \in [Agents(N) -> InitRandX]
    /\ Y \in [Agents(N) -> InitRandY]
    /\ Stepsize = [i \in Agents(N) |-> RatInt(0)]
    /\ Angle = Zeros(N)
    /\ Distance = Zeros2(N, Agents(N))
    /\ Xs = Zeros2(N, Columns)
    /\ Ys = Zeros2(N, Columns)
    /\ Time = 0
    /\ pc = "loop"
    /\ Nr_In_Dist1 = <<>>
    /\ Nr_In_Dist2 = <<>>
    /\ Density_In_Dist1 = <<>>
    /\ Density_In_Dist2 = <<>>
    /\ Beta = <<>>

\* One iteration of "for Time in range(EndTime)".
Step ==
    /\ pc = "loop"
    /\ Time < EndTime
    /\ Distance' = dist(X, Y)
    /\ Nr_In_Dist1' = NrInDist(Distance', D1, N)
    /\ Nr_In_Dist2' = NrInDist(Distance', D2, N)
    /\ Density_In_Dist1' = DensityInDist(Nr_In_Dist1', D1, N)
    /\ Density_In_Dist2' = DensityInDist(Nr_In_Dist2', D2, N)
    /\ Beta' = [i \in Agents(N) |->
                  BetaOf(Density_In_Dist1'[i], Density_In_Dist2'[i], P3)]
    /\ \E u \in [Agents(N) -> URand] :
          Stepsize' = [i \in Agents(N) |-> StepsizeOf(Beta'[i], u[i])]
    /\ \E a \in [Agents(N) -> ARand] :
          Angle' = [i \in Agents(N) |-> AngleOf(a[i])]
    /\ X' = [i \in Agents(N) |->
               Floor(Boundary(Move(X[i], Sin(Angle'[i]), Stepsize'[i])))]
    /\ Y' = [i \in Agents(N) |->
               Floor(Boundary(Move(Y[i], Cos(Angle'[i]), Stepsize'[i])))]
    /\ Xs' = Record(Xs, Time, X')
    /\ Ys' = Record(Ys, Time, Y')
    /\ Time' = Time + 1
    /\ UNCHANGED <<N, P3, pc>>

\* The loop is exhausted: the cell goes on to report the elapsed time.
Finish ==
    /\ pc = "loop"
    /\ Time = EndTime
    /\ pc' = "done"
    /\ UNCHANGED <<N, P3, X, Y, Xs, Ys, Time, Distance, Nr_In_Dist1, Nr_In_Dist2,
                   Density_In_Dist1, Density_In_Dist2, Beta, Stepsize, Angle>>

Next == Step \/ Finish

Spec == Init /\ [][Next]_vars

\* ---------------------------------------------------------------- dist, distp
\* The two distance routines applied to arbitrary position arrays.
InitDist ==
    /\ N \in 0 .. MaxN
    /\ P3 \in P3Set
    /\ X \in [Agents(N) -> DistArgs]
    /\ Y \in [Agents(N) -> DistArgs]
    /\ Stepsize = [i \in Agents(N) |-> RatInt(0)]
    /\ Angle = Zeros(N)
    /\ Distance = Zeros2(N, Agents(N))
    /\ Xs = Zeros2(N, Columns)
    /\ Ys = Zeros2(N, Columns)
    /\ Time = 0
    /\ pc = "args"
    /\ Nr_In_Dist1 = <<>>
    /\ Nr_In_Dist2 = <<>>
    /\ Density_In_Dist1 = <<>>
    /\ Density_In_Dist2 = <<>>
    /\ Beta = <<>>

CallDist ==
    /\ pc = "args"
    /\ Distance' = dist(X, Y)
    /\ pc' = "dist"
    /\ UNCHANGED <<N, P3, X, Y, Xs, Ys, Time, Nr_In_Dist1, Nr_In_Dist2,
                   Density_In_Dist1, Density_In_Dist2, Beta, Stepsize, Angle>>

CallDistp ==
    /\ pc = "args"
    /\ Distance' = distp(X, Y)
    /\ pc' = "distp"
    /\ UNCHANGED <<N, P3, X, Y, Xs, Ys, Time, Nr_In_Dist1, Nr_In_Dist2,
                   Density_In_Dist1, Density_In_Dist2, Beta, Stepsize, Angle>>

NextDist == CallDist \/ CallDistp

SpecDist == InitDist /\ [][NextDist]_vars

\* ---------------------------------------------------------------- properties
InDomain(c) == 0 <= c /\ c < Length
Floor001 == Rat(FloorNum, FloorDen)
AgitationAt(i) == Agitation(Density_In_Dist1[i], Density_In_Dist2[i])
CountAt(Nr, i) == SumAxis0(Nr, N)[i]

\* C1: after every step of the loop, both coordinates of every mussel lie in
\* [0, Length).
C1_AllInDomain ==
    Time > 0 => \A i \in Agents(N) : InDomain(X[i]) /\ InDomain(Y[i])

\* C2 as stated: Beta = 1 / max(0.001, P1*density_D1 + P2*density_D2 + P3),
\* the floor applied to the whole sum including P3.
C2_FloorOverWholeSum ==
    Time > 0 => \A i \in Agents(N) :
        RatMul(Beta[i], RatMax(Floor001, RatAdd(AgitationAt(i), RatInt(P3))))
            = RatInt(1)

\* C2 (amended): Beta = 1 / (max(0.001, P1*density_D1 + P2*density_D2) + P3):
\* the floor is applied to the density terms alone and P3 is added after it.
C2_FloorBeforeP3 ==
    Time > 0 => \A i \in Agents(N) :
        IF RatLess(AgitationAt(i), Floor001)
        THEN RatMul(Beta[i], Rat(FloorNum + FloorDen * P3, FloorDen)) = RatInt(1)
        ELSE RatMul(Beta[i], RatAdd(AgitationAt(i), RatInt(P3))) = RatInt(1)

\* A mussel whose density terms sum to less than zero has had its Beta computed.
C2_Witness ==
    Time > 0 /\ \E i \in Agents(N) : RatLess(AgitationAt(i), RatInt(0))

\* C3 as stated: with N = 1 both density terms are zero at every step and
\* Beta is exactly 1/P3.
C3_BetaIsOneOverP3 ==
    (N = 1 /\ Time > 0) =>
        /\ Density_In_Dist1[0] = RatInt(0)
        /\ Density_In_Dist2[0] = RatInt(0)
        /\ RatMul(Beta[0], RatInt(P3)) = RatInt(1)

\* C3 (amended): with N = 1 both density terms are zero at every step and
\* Beta is exactly 1/(0.001 + P3).
C3_BetaIsOneOverFloorPlusP3 ==
    (N = 1 /\ Time > 0) =>
        /\ Density_In_Dist1[0] = RatInt(0)
        /\ Density_In_Dist2[0] = RatInt(0)
        /\ Beta[0] = Rat(FloorDen, FloorNum + FloorDen * P3)

\* A run of a single mussel with the notebook's P3 has done all its steps.
C3_Witness == N = 1 /\ Time = EndTime /\ P3 = 3 /\ Beta # <<>>

C5_NeighbourCounts ==
    (Time > 0 /\ D1 > 0 /\ D2 > 0) => \A i \in Agents(N) :
        /\ CountAt(Nr_In_Dist1, i)
             = Cardinality({j \in Agents(N) \ {i} : Distance[i][j] < D1})
        /\ CountAt(Nr_In_Dist2, i)
             = Cardinality({j \in Agents(N) \ {i} : Distance[i][j] < D2})
        /\ CountAt(Nr_In_Dist1, i) \in 0 .. (N - 1)
        /\ CountAt(Nr_In_Dist2, i) \in 0 .. (N - 1)
        /\ (D1 <= D2 => CountAt(Nr_In_Dist1, i) <= CountAt(Nr_In_Dist2, i))

\* Two mussels exactly D1 apart: not counted for D1, counted for D2.
C5_Witness ==
    /\ Time > 0
    /\ \E i, j \in Agents(N) :
        /\ i # j
        /\ Distance[i][j] = D1
        /\ Nr_In_Dist1[i][j] = 0
        /\ Nr_In_Dist2[i][j] = 1

\* C6: an invalid configuration (N = 0, D1 <= 0, D2 <= 0 or Length <= 0) is
\* rejected before the first iteration: no step runs, no history is written.
InvalidConfiguration == N = 0 \/ D1 <= 0 \/ D2 <= 0 \/ Length <= 0
C6_InvalidRejected == InvalidConfiguration => (Time = 0 /\ pc # "done")

\* C7: the run makes exactly EndTime steps, Time going through 0..EndTime-1
\* in order, and then terminates; step t writes the corrected positions into
\* column t of the history and leaves the other columns alone, so that at
\* the end every column holds the positions of its step.
C7_StepsAndHistory ==
    [][/\ (pc = "loop" /\ Time < EndTime) =>
            /\ Time' = Time + 1
            /\ pc' = "loop"
            /\ Time \in Columns
            /\ \A i \in Agents(N) :
                 /\ Xs'[i][Time] = X'[i]
                 /\ Ys'[i][Time] = Y'[i]
                 /\ \A t \in Columns \ {Time} :
                      Xs'[i][t] = Xs[i][t] /\ Ys'[i][t] = Ys[i][t]
       /\ (pc = "loop" /\ Time = EndTime) =>
            /\ pc' = "done"
            /\ Time' = EndTime
            /\ Xs' = Xs /\ Ys' = Ys /\ X' = X /\ Y' = Y
            /\ \A i \in Agents(N) :
                 Xs[i][EndTime - 1] = X[i] /\ Ys[i][EndTime - 1] = Y[i]
       /\ pc # "done"]_vars

\* The run is over and its last two columns differ for some mussel.
C7_Witness ==
    /\ pc = "done"
    /\ Time = EndTime
    /\ \E i \in Agents(N) : Xs[i][EndTime - 1] # Xs[i][EndTime - 2]

\* C9: the matrix dist (and distp) returns is symmetric with a zero diagonal.
C9_SymmetricZeroDiagonal ==
    pc \in {"dist", "distp"} =>
        /\ DOMAIN Distance = Agents(N)
        /\ \A i \in Agents(N) :
            /\ DOMAIN Distance[i] = Agents(N)
            /\ Distance[i][i] = 0
            /\ \A j \in Agents(N) : Distance[i][j] = Distance[j][i]

\* distp has returned for two mussels at different places.
C9_Witness == pc = "distp" /\ N = 2 /\ Distance[0][1] > 0 /\ X[0] # X[1]

\* C10 as stated: for any P1, P2, P3 the denominator of Beta is at least
\* 0.001, so 0 < Beta <= 1000.
C10_BetaBounded ==
    Time > 0 => \A i \in Agents(N) :
        RatLess(RatInt(0), Beta[i]) /\ RatLeq(Beta[i], RatInt(FloorDen))

\* C10 (amended): the denominator of Beta is at least 0.001 + P3, so for
\* P3 >= 0 Beta is finite and 0 < Beta <= 1000.
C10_BetaBoundedForP3 ==
    Time > 0 => \A i \in Agents(N) :
        /\ Beta[i].d > 0
        /\ RatLeq(Rat(FloorNum + FloorDen * P3, FloorDen), RatInv(Beta[i]))
        /\ P3 >= 0 =>
             RatLess(RatInt(0), Beta[i]) /\ RatLeq(Beta[i], RatInt(FloorDen))

\* With P3 = 0 a mussel reached the largest Beta, 1000.
C10_Witness ==
    Time > 0 /\ P3 = 0 /\ \E i \in Agents(N) : Beta[i] = RatInt(FloorDen)

TypeOK ==
    /\ N \in 0 .. MaxN
    /\ Time \in 0 .. EndTime
    /\ pc \in {"loop", "done"}
====
